---------------------------- MODULE Spec2Model ----------------------------
(***************************************************************************)
(* TelegramSender (src/main.py): a batch job that scrapes three rental     *)
(* sites, filters the listings per occupancy group, drops the ones already *)
(* recorded in seen_listings.txt and sends a Telegram digest per group.    *)
(*                                                                         *)
(* Text is modelled as a sequence of one-character (or one-morpheme)       *)
(* strings, so that str.strip, substring search and the price regular      *)
(* expressions are computed rather than assumed.                           *)
(***************************************************************************)
EXTENDS Integers, Sequences, FiniteSets, TLC

(***************************************************************************)
(* Settings (src/main.py:11-14)                                            *)
(***************************************************************************)
PERSON_GROUPS == <<1, 2>>

BASE_BUDGET == 900

TOP_RESULTS == 5

\* 10**9, the price given to a detail page whose price cannot be parsed
Sentinel == 1000000000

\* Python's None for an optional integer (prices and bedroom counts are >= 0)
None == -1

(***************************************************************************)
(* Bounds of the model                                                     *)
(***************************************************************************)
\* number of process runs (each run is one execution of main)
MaxRuns == 2

\* longest text given to is_furnished, in morphemes
MaxTextLen == 3

\* longest text given to the price parsers, in characters
MaxPriceLen == 4

\* longest listing sequence given to filter_for_people on its own
MaxFilterLen == 1

\* largest occupancy group given to filter_for_people on its own
MaxPeople == 3

Procs == 1..MaxRuns

Range(s) == {s[i] : i \in DOMAIN s}

Min(a, b) == IF a <= b THEN a ELSE b

\* all sequences over S of length at most n
SeqUpTo(S, n) == UNION {[1..k -> S] : k \in 0..n}

(***************************************************************************)
(* Strings                                                                 *)
(***************************************************************************)
\* the characters str.strip() removes that occur in the model
Whitespace == {" ", "\n"}

Digits == {"0", "1", "6", "7", "8", "9"}

DigitVal(c) ==
    CASE c = "0" -> 0 [] c = "1" -> 1 [] c = "6" -> 6
      [] c = "7" -> 7 [] c = "8" -> 8 [] c = "9" -> 9

\* int(s) for a non-empty sequence of digits
RECURSIVE ToInt(_)
ToInt(s) ==
    IF Len(s) = 0 THEN 0
    ELSE 10 * ToInt(SubSeq(s, 1, Len(s) - 1)) + DigitVal(s[Len(s)])

RECURSIVE lstrip(_)
lstrip(s) ==
    IF s # <<>> /\ Head(s) \in Whitespace THEN lstrip(Tail(s)) ELSE s

RECURSIVE rstrip(_)
rstrip(s) ==
    IF s # <<>> /\ s[Len(s)] \in Whitespace
    THEN rstrip(SubSeq(s, 1, Len(s) - 1))
    ELSE s

\* str.strip()
strip(s) == rstrip(lstrip(s))

\* str(people) inside the f-string of the key
StrOf(n) == CASE n = 0 -> "0" [] n = 1 -> "1" [] n = 2 -> "2" [] n = 3 -> "3" [] n = 4 -> "4"

\* needle in haystack (Python's substring test)
Contains(hay, needle) ==
    \E i \in 0..(Len(hay) - Len(needle)) :
        \A j \in 1..Len(needle) : hay[i + j] = needle[j]

(***************************************************************************)
(* Text classifier: is_furnished (src/main.py:17-33)                       *)
(* Phrases are sequences of morphemes: "unfurnished" is <<"un",            *)
(* "furnished">>, so "furnished" is a substring of it as in Python.        *)
(***************************************************************************)
FURNISHED_YES ==
    { <<"furnished">>, <<"fully", " ", "furnished">>,
      <<"gemeubileerd">>, <<"volledig", " ", "gemeubileerd">> }

FURNISHED_NO ==
    { <<"un", "furnished">>, <<"not", " ", "furnished">>,
      <<"on", "gemeubileerd">>, <<"kaal">>, <<"shell">>, <<"gestoffeerd">> }

\* str.lower() on one morpheme
LowerTok(c) ==
    CASE c = "Furnished" -> "furnished"
      [] c = "UN" -> "un"
      [] c = "Kaal" -> "kaal"
      [] OTHER -> c

lower(t) == [i \in DOMAIN t |-> LowerTok(t[i])]

\* faulty variant: the positive vocabulary is looked up first
is_furnished_yes_first(text) ==
    LET t == lower(text) IN
    IF \E w \in FURNISHED_YES : Contains(t, w) THEN TRUE
    ELSE FALSE

is_furnished(text) ==
    LET t == lower(text) IN
    IF \E w \in FURNISHED_NO : Contains(t, w) THEN FALSE
    ELSE IF \E w \in FURNISHED_YES : Contains(t, w) THEN TRUE
    ELSE FALSE

(***************************************************************************)
(* Price parsing (src/main.py:102-105, 126-138, 168)                       *)
(***************************************************************************)
\* characters \w matches that occur in the model: digits and letters
WordChars == Digits \cup {"x"}

\* the character class [\d\.\,]
PriceChars == Digits \cup {".", ","}

\* "".join(c for c in s if c.isdigit())
OnlyDigits(s) == SelectSeq(s, LAMBDA c : c \in Digits)

\* s.replace(".", "").replace(",", "")
NoSeparators(s) == SelectSeq(s, LAMBDA c : c \notin {".", ","})

\* first index >= i of s that is not whitespace (Len(s)+1 if none): \s*
RECURSIVE SkipSpace(_, _)
SkipSpace(s, i) ==
    IF i <= Len(s) /\ s[i] \in Whitespace THEN SkipSpace(s, i + 1) ELSE i

\* last index of the maximal run of PriceChars starting at i: [\d\.\,]+
RECURSIVE RunEnd(_, _)
RunEnd(s, i) ==
    IF i + 1 <= Len(s) /\ s[i + 1] \in PriceChars THEN RunEnd(s, i + 1) ELSE i

\* positions where re.search(r"EUR\s*([\d\.\,]+)") can match; "EUR" stands
\* for the one character U+20AC, which is neither a word character nor a space
EuroMatches(s) ==
    {i \in DOMAIN s : /\ s[i] = "EUR"
                      /\ SkipSpace(s, i + 1) <= Len(s)
                      /\ s[SkipSpace(s, i + 1)] \in PriceChars}

\* \b at the gap before position i of s (1 <= i <= Len(s)+1)
Boundary(s, i) ==
    LET before == i > 1 /\ s[i - 1] \in WordChars
        after == i <= Len(s) /\ s[i] \in WordChars
    IN before # after

\* \b(\d{3,4})\b matches s[i..i+k-1]
RentAt(s, i, k) ==
    /\ i + k - 1 <= Len(s)
    /\ \A j \in i..(i + k - 1) : s[j] \in Digits
    /\ Boundary(s, i)
    /\ Boundary(s, i + k)

SetMin(S) == CHOOSE x \in S : \A y \in S : x <= y

\* _parse_price_from_text: an integer, or None
parse_price_from_text(txt) ==
    IF EuroMatches(txt) = {}
    THEN LET t == NoSeparators(txt)
             starts == {i \in DOMAIN t : RentAt(t, i, 4) \/ RentAt(t, i, 3)}
         IN IF starts = {} THEN None
            ELSE LET i == SetMin(starts)
                     k == IF RentAt(t, i, 4) THEN 4 ELSE 3
                 IN ToInt(SubSeq(t, i, i + k - 1))
    ELSE LET i == SetMin(EuroMatches(txt))
             b == SkipSpace(txt, i + 1)
             val == NoSeparators(SubSeq(txt, b, RunEnd(txt, b)))
         IN IF val = <<>> THEN None ELSE ToInt(val)

\* faulty variant: an unparsed price becomes 0
detail_price_zero(parsed) == IF parsed = None THEN 0 ELSE parsed

\* `_parse_price_from_text(text) or 10**9`: None and 0 are both falsy
detail_price(parsed) ==
    IF parsed = None \/ parsed = 0 THEN Sentinel ELSE parsed

(***************************************************************************)
(* Group filter (src/main.py:257-277)                                      *)
(***************************************************************************)
\* faulty variant: the budget bound is exclusive
admits_strict_budget(it, people) ==
    /\ ~(it.price = None \/ it.price >= BASE_BUDGET * people)
    /\ it.furnished
    /\ IF people = 1
       THEN ~(it.bedrooms # None /\ it.bedrooms > 1)
       ELSE ~(it.bedrooms # None /\ it.bedrooms < 2)

\* the loop body of filter_for_people: TRUE when `it` is appended to out
admits(it, people) ==
    /\ ~(it.price = None \/ it.price > BASE_BUDGET * people)
    /\ it.furnished
    /\ IF people = 1
       THEN ~(it.bedrooms # None /\ it.bedrooms > 1)
       ELSE ~(it.bedrooms # None /\ it.bedrooms < 2)

\* faulty variant: a sort that reverses listings of equal price
sort_unstable(out) ==
    LET rank(i) == 1 + Cardinality({j \in DOMAIN out :
                        \/ out[j].price < out[i].price
                        \/ out[j].price = out[i].price /\ j > i})
    IN [k \in DOMAIN out |-> out[CHOOSE i \in DOMAIN out : rank(i) = k]]

\* out.sort(key=lambda x: x["price"]): list.sort is ascending and stable, so
\* an element moves behind the cheaper ones and the equal ones before it
sort_by_price(out) ==
    LET rank(i) == 1 + Cardinality({j \in DOMAIN out :
                        \/ out[j].price < out[i].price
                        \/ out[j].price = out[i].price /\ j < i})
    IN [k \in DOMAIN out |-> out[CHOOSE i \in DOMAIN out : rank(i) = k]]

filter_for_people(listings_, people_) ==
    sort_by_price(SelectSeq(listings_, LAMBDA it : admits(it, people_)))

(***************************************************************************)
(* Seen store and dedup engine (src/main.py:49-70)                         *)
(* The file is the set of its lines; a missing file has exists = FALSE.    *)
(***************************************************************************)
NoFile == [exists |-> FALSE, lines |-> {}]

\* f"{people}|{it['source']}|{it['url']}"
key_of(people_, source, url) == <<StrOf(people_), "|", source, "|">> \o url

\* set(line.strip() for line in f), or set() when the file is missing
load_seen(file) ==
    IF ~file.exists THEN {} ELSE {strip(line) : line \in file.lines}

\* open(SEEN_FILE, "w") truncates; one line item + "\n" per element
save_seen(seen_) == [exists |-> TRUE, lines |-> {k \o <<"\n">> : k \in seen_}]

\* the for loop of remove_seen from position i on
RECURSIVE dedup_from(_, _, _, _, _)
dedup_from(listings_, people_, i, new_items, seen_) ==
    IF i > Len(listings_) THEN [new_items |-> new_items, seen |-> seen_]
    ELSE LET it == listings_[i]
             key == key_of(people_, it.source, it.url)
         IN IF key \notin seen_
            THEN dedup_from(listings_, people_, i + 1,
                            Append(new_items, it), seen_ \cup {key})
            ELSE dedup_from(listings_, people_, i + 1, new_items, seen_)

\* lines 63-68 of remove_seen, given the set load_seen returned
dedup(listings_, people_, seen_) ==
    dedup_from(listings_, people_, 1, <<>>, seen_)

(***************************************************************************)
(* Notifier (src/main.py:72-82, 279-290)                                   *)
(***************************************************************************)
\* "studio" / f"{b} bedrooms" / "bedrooms?"
bedroom_text(b) ==
    IF b = 0 THEN <<"studio">>
    ELSE IF b # None THEN <<StrOf(b), " bedrooms">>
    ELSE <<"bedrooms?">>

\* one entry of the digest
render(it) ==
    [source |-> it.source, title |-> it.title, price |-> it.price,
     btxt |-> bedroom_text(it.bedrooms), url |-> it.url]

\* matches[:n]
Take(s, n) == SubSeq(s, 1, Min(n, Len(s)))

\* faulty variant: the digest lists every match
compose_uncapped(matches, people_) ==
    IF matches = <<>>
    THEN [kind |-> "none", people |-> people_, max_rent |-> 0, items |-> <<>>]
    ELSE [kind |-> "matches", people |-> people_,
          max_rent |-> BASE_BUDGET * people_,
          items |-> [i \in DOMAIN matches |-> render(matches[i])]]

\* the text notify_group hands to send_message
compose(matches, people_) ==
    IF matches = <<>>
    THEN [kind |-> "none", people |-> people_, max_rent |-> 0, items |-> <<>>]
    ELSE [kind |-> "matches", people |-> people_,
          max_rent |-> BASE_BUDGET * people_,
          items |-> [i \in DOMAIN Take(matches, TOP_RESULTS) |->
                        render(matches[i])]]

(***************************************************************************)
(* The three sites as the scrapers see them.  A Pararius card carries the  *)
(* text of its price element; a detail page carries its text.  furnished   *)
(* and bedrooms stand for the verdicts of is_furnished and infer_bedrooms  *)
(* on the page text.                                                       *)
(***************************************************************************)
Sources == {"Pararius", "Funda", "Huurwoningen"}

\* section.listing-search-item cards of the Pararius list page, in page order.
\* Two cards link to the same href; one href ends in a space; the last card
\* has a price element without digits.
PARARIUS_CARDS ==
    << [title |-> "P1", price_text |-> <<"EUR", "7", "0", "0">>, url |-> <<"a">>,
        furnished |-> TRUE, bedrooms |-> 0],
       [title |-> "P2", price_text |-> <<"EUR", "8", "0", "0">>, url |-> <<"a">>,
        furnished |-> TRUE, bedrooms |-> None],
       [title |-> "P3", price_text |-> <<"EUR", "8", "0", "0">>, url |-> <<"w", " ">>,
        furnished |-> TRUE, bedrooms |-> 1],
       [title |-> "P4", price_text |-> <<"EUR", "9", "0", "0">>, url |-> <<"b">>,
        furnished |-> TRUE, bedrooms |-> None],
       [title |-> "P5", price_text |-> <<"EUR", "9", "0", "0">>, url |-> <<"c">>,
        furnished |-> TRUE, bedrooms |-> 1],
       [title |-> "P6", price_text |-> <<"x">>, url |-> <<"d">>,
        furnished |-> TRUE, bedrooms |-> 0] >>

\* the detail pages the Funda list page links to, in link order
FUNDA_PAGES ==
    << [title |-> "F1", text |-> <<"EUR", " ", "8", "0", "0">>, url |-> <<"a">>,
        furnished |-> TRUE, bedrooms |-> None],
       [title |-> "F2", text |-> <<"x", " ", "x">>, url |-> <<"e">>,
        furnished |-> TRUE, bedrooms |-> None] >>

\* the detail pages the Huurwoningen list page links to, in link order
HUURWONINGEN_PAGES ==
    << [title |-> "H1", text |-> <<"x", " ", "6", "0", "0">>, url |-> <<"f">>,
        furnished |-> TRUE, bedrooms |-> 0],
       [title |-> "H2", text |-> <<"EUR", "1", ".", "8", "0", "0">>, url |-> <<"g">>,
        furnished |-> TRUE, bedrooms |-> 2] >>

\* a detail request is named by its source and url
DetailPagesOf(srcs) ==
    {<<"Funda", FUNDA_PAGES[i].url>> :
        i \in IF "Funda" \in srcs THEN DOMAIN FUNDA_PAGES ELSE {}}
    \cup
    {<<"Huurwoningen", HUURWONINGEN_PAGES[i].url>> :
        i \in IF "Huurwoningen" \in srcs THEN DOMAIN HUURWONINGEN_PAGES ELSE {}}

Listing(c, price, source) ==
    [title |-> c.title, price |-> price, url |-> c.url,
     furnished |-> c.furnished, bedrooms |-> c.bedrooms, source |-> source]

MapSeq(s, F(_)) == [i \in DOMAIN s |-> F(s[i])]

(***************************************************************************)
(* Source adapters and aggregator (src/main.py:87-252).  A call either     *)
(* raises or returns `out`.  failList is the set of sources whose list     *)
(* request fails, failDetail the set of detail requests that fail.         *)
(***************************************************************************)
\* the loop over the cards of the list page (lines 94-124)
pararius_results(cards) ==
    MapSeq(
        SelectSeq(cards, LAMBDA c : OnlyDigits(c.price_text) # <<>>),
        LAMBDA c : Listing(c, ToInt(OnlyDigits(c.price_text)), "Pararius"))

fetch_pararius_listings(failList) ==
    IF "Pararius" \in failList THEN [raised |-> TRUE, out |-> <<>>]
    ELSE [raised |-> FALSE, out |-> pararius_results(PARARIUS_CARDS)]

\* the loop over links[:20] shared by the two detail-page adapters
detail_results(pages, source, failDetail) ==
    MapSeq(
        SelectSeq(Take(pages, 20), LAMBDA c : <<source, c.url>> \notin failDetail),
        LAMBDA c : Listing(c, detail_price(parse_price_from_text(c.text)), source))

fetch_funda_listings(failList, failDetail) ==
    IF "Funda" \in failList THEN [raised |-> TRUE, out |-> <<>>]
    ELSE [raised |-> FALSE, out |-> detail_results(FUNDA_PAGES, "Funda", failDetail)]

fetch_huurwoningen_listings(failList, failDetail) ==
    IF "Huurwoningen" \in failList THEN [raised |-> FALSE, out |-> <<>>]
    ELSE [raised |-> FALSE,
          out |-> detail_results(HUURWONINGEN_PAGES, "Huurwoningen", failDetail)]

\* faulty variant: no try/except around the adapters, the first failure ends the fetch
fetch_all_unguarded(failList, failDetail) ==
    LET p == fetch_pararius_listings(failList)
        f == fetch_funda_listings(failList, failDetail)
        h == fetch_huurwoningen_listings(failList, failDetail)
    IN IF p.raised THEN <<>>
       ELSE IF f.raised THEN p.out
       ELSE p.out \o f.out \o h.out

fetch_all_listings(failList, failDetail) ==
    LET p == fetch_pararius_listings(failList)
        f == fetch_funda_listings(failList, failDetail)
        h == fetch_huurwoningen_listings(failList, failDetail)
        items1 == IF p.raised THEN <<>> ELSE p.out
        items2 == IF f.raised THEN items1 ELSE items1 \o f.out
    IN IF h.raised THEN items2 ELSE items2 \o h.out

(***************************************************************************)
(* State                                                                   *)
(***************************************************************************)
VARIABLES
    seenFile,       \* seen_listings.txt: [exists, lines]
    creds,          \* TELEGRAM_TOKEN and CHAT_ID are both set
    serialized,     \* the scheduler starts a run only when no other is active
    pc,             \* per run: position in main
    gidx,           \* per run: index of `people` in PERSON_GROUPS
    listings,       \* per run: result of fetch_all_listings
    filtered,       \* per run: result of filter_for_people
    seen,           \* per run: the local set `seen` of remove_seen
    new_only,       \* per run: new_items / new_only
    msg,            \* per run: the text last handed to send_message
    failedList,     \* per run: sources whose list request failed
    failedDetail,   \* per run: detail requests that failed
    loads,          \* per run: calls of load_seen
    saves,          \* per run: calls of save_seen
    groupsDone,     \* per run: groups for which notify_group returned
    processed,      \* history: (group, source, url) remove_seen has processed
    reported,       \* history, per run: (group, source, url) remove_seen returned
    notified,       \* history: (group, source, url) in a digest posted to Telegram
    everSaved,      \* history: keys handed to save_seen
    topNew,         \* history: (group, source, url) among the first TOP_RESULTS
                    \* of a remove_seen result while the credentials were set
    call            \* a single call of a pure function: argument and result

runVars == <<seenFile, creds, serialized, pc, gidx, listings, filtered, seen,
             new_only, msg, failedList, failedDetail, loads, saves, groupsDone,
             processed, reported, notified, everSaved, topNew>>

vars == <<runVars, call>>

NoCall == [fn |-> "main"]

NoMsg == [kind |-> "unset", people |-> 0, max_rent |-> 0, items |-> <<>>]

People(p) == PERSON_GROUPS[gidx[p]]

Triples(s, g) == {<<g, s[i].source, s[i].url>> : i \in DOMAIN s}

Quiescent == \A p \in Procs : pc[p] \in {"idle", "done"}

RunInit ==
    /\ seenFile \in {NoFile, [exists |-> TRUE, lines |-> {}]}
    /\ creds \in BOOLEAN
    /\ pc = [p \in Procs |-> "idle"]
    /\ gidx = [p \in Procs |-> 1]
    /\ listings = [p \in Procs |-> <<>>]
    /\ filtered = [p \in Procs |-> <<>>]
    /\ seen = [p \in Procs |-> {}]
    /\ new_only = [p \in Procs |-> <<>>]
    /\ msg = [p \in Procs |-> NoMsg]
    /\ failedList = [p \in Procs |-> {}]
    /\ failedDetail = [p \in Procs |-> {}]
    /\ loads = [p \in Procs |-> 0]
    /\ saves = [p \in Procs |-> 0]
    /\ groupsDone = [p \in Procs |-> {}]
    /\ processed = {}
    /\ reported = [p \in Procs |-> {}]
    /\ notified = {}
    /\ everSaved = {}
    /\ topNew = {}

\* runs are started one after the other by the scheduler
Init == RunInit /\ serialized = TRUE /\ call = NoCall

\* Runs may also be started while another one is active.  The store starts
\* missing and the credentials are set: neither bears on the interleaving.
InitConc ==
    /\ RunInit
    /\ seenFile = NoFile
    /\ creds = TRUE
    /\ serialized \in BOOLEAN
    /\ call = NoCall

(***************************************************************************)
(* main (src/main.py:295-300), one action per step of a run                *)
(***************************************************************************)
\* Run p is the p-th to start; a serialized run waits for the earlier ones.
CanStart(p) ==
    /\ pc[p] = "idle"
    /\ \A q \in Procs : q < p =>
          IF serialized THEN pc[q] = "done" ELSE pc[q] # "idle"

\* listings = fetch_all_listings()
Fetch(p) ==
    /\ CanStart(p)
    /\ \E fl \in SUBSET Sources :
         \E fd \in SUBSET DetailPagesOf(Sources \ fl) :
            /\ listings' = [listings EXCEPT ![p] = fetch_all_listings(fl, fd)]
            /\ failedList' = [failedList EXCEPT ![p] = fl]
            /\ failedDetail' = [failedDetail EXCEPT ![p] = fd]
    /\ gidx' = [gidx EXCEPT ![p] = 1]
    /\ pc' = [pc EXCEPT ![p] = "filter"]
    /\ UNCHANGED <<seenFile, creds, serialized, filtered, seen, new_only, msg,
                   loads, saves, groupsDone, processed, reported, notified,
                   everSaved, topNew, call>>

\* filtered = filter_for_people(listings, people)
Filter(p) ==
    /\ pc[p] = "filter"
    /\ filtered' = [filtered EXCEPT ![p] = filter_for_people(listings[p], People(p))]
    /\ pc' = [pc EXCEPT ![p] = "load"]
    /\ UNCHANGED <<seenFile, creds, serialized, gidx, listings, seen, new_only,
                   msg, failedList, failedDetail, loads, saves, groupsDone,
                   processed, reported, notified, everSaved, topNew, call>>

\* remove_seen, line 62: seen = load_seen()
LoadSeen(p) ==
    /\ pc[p] = "load"
    /\ seen' = [seen EXCEPT ![p] = load_seen(seenFile)]
    /\ loads' = [loads EXCEPT ![p] = @ + 1]
    /\ pc' = [pc EXCEPT ![p] = "dedup"]
    /\ UNCHANGED <<seenFile, creds, serialized, gidx, listings, filtered,
                   new_only, msg, failedList, failedDetail, saves, groupsDone,
                   processed, reported, notified, everSaved, topNew, call>>

\* remove_seen, lines 63-68: the loop over the filtered listings
Dedup(p) ==
    /\ pc[p] = "dedup"
    /\ LET r == dedup(filtered[p], People(p), seen[p])
       IN /\ new_only' = [new_only EXCEPT ![p] = r.new_items]
          /\ seen' = [seen EXCEPT ![p] = r.seen]
    /\ pc' = [pc EXCEPT ![p] = "save"]
    /\ UNCHANGED <<seenFile, creds, serialized, gidx, listings, filtered, msg,
                   failedList, failedDetail, loads, saves, groupsDone,
                   processed, reported, notified, everSaved, topNew, call>>

\* faulty variant: only the keys added by this call are written
SaveSeenNewOnly(p) ==
    /\ pc[p] = "save"
    /\ seenFile' = save_seen(seen[p] \ load_seen(seenFile))
    /\ saves' = [saves EXCEPT ![p] = @ + 1]
    /\ everSaved' = everSaved \cup seen[p]
    /\ topNew' = IF creds
                 THEN topNew \cup Triples(Take(new_only[p], TOP_RESULTS), People(p))
                 ELSE topNew
    /\ processed' = processed \cup Triples(filtered[p], People(p))
    /\ reported' = [reported EXCEPT ![p] = @ \cup Triples(new_only[p], People(p))]
    /\ pc' = [pc EXCEPT ![p] = "notify"]
    /\ UNCHANGED <<creds, serialized, gidx, listings, filtered, seen, new_only,
                   msg, failedList, failedDetail, loads, groupsDone, notified,
                   call>>

\* faulty variant: the store is written only when the call found something new
SaveSeenIfNew(p) ==
    /\ pc[p] = "save"
    /\ IF new_only[p] # <<>>
       THEN /\ seenFile' = save_seen(seen[p])
            /\ saves' = [saves EXCEPT ![p] = @ + 1]
       ELSE UNCHANGED <<seenFile, saves>>
    /\ everSaved' = everSaved \cup seen[p]
    /\ topNew' = IF creds
                 THEN topNew \cup Triples(Take(new_only[p], TOP_RESULTS), People(p))
                 ELSE topNew
    /\ processed' = processed \cup Triples(filtered[p], People(p))
    /\ reported' = [reported EXCEPT ![p] = @ \cup Triples(new_only[p], People(p))]
    /\ pc' = [pc EXCEPT ![p] = "notify"]
    /\ UNCHANGED <<creds, serialized, gidx, listings, filtered, seen, new_only,
                   msg, failedList, failedDetail, loads, groupsDone, notified,
                   call>>

\* remove_seen, lines 69-70: save_seen(seen); return new_items
SaveSeen(p) ==
    /\ pc[p] = "save"
    /\ seenFile' = save_seen(seen[p])
    /\ saves' = [saves EXCEPT ![p] = @ + 1]
    /\ everSaved' = everSaved \cup seen[p]
    /\ topNew' = IF creds
                 THEN topNew \cup Triples(Take(new_only[p], TOP_RESULTS), People(p))
                 ELSE topNew
    /\ processed' = processed \cup Triples(filtered[p], People(p))
    /\ reported' = [reported EXCEPT ![p] = @ \cup Triples(new_only[p], People(p))]
    /\ pc' = [pc EXCEPT ![p] = "notify"]
    /\ UNCHANGED <<creds, serialized, gidx, listings, filtered, seen, new_only,
                   msg, failedList, failedDetail, loads, groupsDone, notified,
                   call>>

\* notify_group(new_only, people), with send_message: without the
\* credentials nothing is posted, with them the text goes to Telegram
Notify(p) ==
    /\ pc[p] = "notify"
    /\ LET m == compose(new_only[p], People(p))
       IN /\ msg' = [msg EXCEPT ![p] = m]
          /\ notified' = IF creds THEN notified \cup Triples(m.items, People(p))
                         ELSE notified
    /\ groupsDone' = [groupsDone EXCEPT ![p] = @ \cup {People(p)}]
    /\ pc' = [pc EXCEPT ![p] = "next"]
    /\ UNCHANGED <<seenFile, creds, serialized, gidx, listings, filtered, seen,
                   new_only, failedList, failedDetail, loads, saves, processed,
                   reported, everSaved, topNew, call>>

\* for people in PERSON_GROUPS: the next group, or the end of main
NextGroup(p) ==
    /\ pc[p] = "next"
    /\ IF gidx[p] < Len(PERSON_GROUPS)
       THEN /\ gidx' = [gidx EXCEPT ![p] = @ + 1]
            /\ pc' = [pc EXCEPT ![p] = "filter"]
            /\ UNCHANGED <<listings, failedList, failedDetail>>
       ELSE /\ gidx' = [gidx EXCEPT ![p] = 1]
            /\ pc' = [pc EXCEPT ![p] = "done"]
            /\ listings' = [listings EXCEPT ![p] = <<>>]
            /\ failedList' = [failedList EXCEPT ![p] = {}]
            /\ failedDetail' = [failedDetail EXCEPT ![p] = {}]
    /\ filtered' = [filtered EXCEPT ![p] = <<>>]
    /\ seen' = [seen EXCEPT ![p] = {}]
    /\ new_only' = [new_only EXCEPT ![p] = <<>>]
    /\ msg' = [msg EXCEPT ![p] = NoMsg]
    /\ UNCHANGED <<seenFile, creds, serialized, loads, saves, groupsDone,
                   processed, reported, notified, everSaved, topNew, call>>

Next ==
    \E p \in Procs :
        \/ Fetch(p)
        \/ Filter(p)
        \/ LoadSeen(p)
        \/ Dedup(p)
        \/ SaveSeen(p)
        \/ Notify(p)
        \/ NextGroup(p)

\* a step of run p after its fetch
RunStep(p) ==
    Filter(p) \/ LoadSeen(p) \/ Dedup(p) \/ SaveSeen(p) \/ Notify(p) \/ NextGroup(p)

\* serialized runs
Spec == Init /\ [][Next]_vars

\* runs with or without serialization
SpecConc == InitConc /\ [][Next]_vars

(***************************************************************************)
(* Single calls of the pure functions, on every input within the bounds    *)
(***************************************************************************)
RunIdle == RunInit /\ seenFile = NoFile /\ creds = TRUE /\ serialized = TRUE

\* morphemes of the texts given to is_furnished
TextTokens ==
    {"un", "on", "not", "fully", " ", "furnished", "gemeubileerd", "kaal",
     "shell", "gestoffeerd", "Furnished", "UN", "Kaal", "x"}

InitFurnished ==
    /\ RunIdle
    /\ call \in {[fn |-> "is_furnished", arg |-> t, done |-> FALSE, ret |-> FALSE] :
                    t \in SeqUpTo(TextTokens, MaxTextLen)}

CallIsFurnished ==
    /\ call.fn = "is_furnished"
    /\ ~call.done
    /\ call' = [call EXCEPT !.done = TRUE, !.ret = is_furnished(call.arg)]
    /\ UNCHANGED runVars

SpecFurnished == InitFurnished /\ [][CallIsFurnished]_vars

\* prices around the budget of every group size, an unknown price, the sentinel
FilterPrices ==
    {None, 0, Sentinel}
    \cup {BASE_BUDGET * k + d : k \in 1..MaxPeople, d \in {-1, 0, 1}}

FilterListings ==
    [title : {"T"}, price : FilterPrices, url : {<<"a">>}, furnished : BOOLEAN,
     bedrooms : {None, 0, 1, 2, 3}, source : {"Pararius"}]

InitFilter ==
    /\ RunIdle
    /\ call \in {[fn |-> "filter_for_people",
                  arg |-> [listings |-> l, people |-> n],
                  done |-> FALSE, ret |-> <<>>] :
                    l \in SeqUpTo(FilterListings, MaxFilterLen), n \in 1..MaxPeople}

CallFilter ==
    /\ call.fn = "filter_for_people"
    /\ ~call.done
    /\ call' = [call EXCEPT !.done = TRUE,
                   !.ret = filter_for_people(call.arg.listings, call.arg.people)]
    /\ UNCHANGED runVars

SpecFilter == InitFilter /\ [][CallFilter]_vars

\* characters of the price texts
PriceAlphabet == {"EUR", " ", ".", "9", "0", "x"}

InitPrice ==
    /\ RunIdle
    /\ call \in {[fn |-> "candidate",
                  arg |-> [source |-> src, text |-> t],
                  done |-> FALSE,
                  ret |-> [parsed |-> None, built |-> <<>>,
                           admitted |-> [g \in Range(PERSON_GROUPS) |-> <<>>]]] :
                    src \in Sources, t \in SeqUpTo(PriceAlphabet, MaxPriceLen)}

\* One candidate through its adapter and then through the filter of every
\* group.  It is furnished with unknown bedrooms, so only the price decides.
CallCandidate ==
    /\ call.fn = "candidate"
    /\ ~call.done
    /\ LET src == call.arg.source
           c == [title |-> "T", price_text |-> call.arg.text,
                 text |-> call.arg.text, url |-> <<"a">>,
                 furnished |-> TRUE, bedrooms |-> None]
           built == IF src = "Pararius" THEN pararius_results(<<c>>)
                    ELSE detail_results(<<c>>, src, {})
       IN call' = [call EXCEPT
                     !.done = TRUE,
                     !.ret = [parsed |-> parse_price_from_text(call.arg.text),
                              built |-> built,
                              admitted |-> [g \in Range(PERSON_GROUPS) |->
                                               filter_for_people(built, g)]]]
    /\ UNCHANGED runVars

SpecPrice == InitPrice /\ [][CallCandidate]_vars

(***************************************************************************)
(* Properties                                                              *)
(***************************************************************************)
AllDone == \A p \in Procs : pc[p] = "done"

StoreKeys == load_seen(seenFile)

AllReported == UNION {reported[p] : p \in Procs}

TripleKey(t) == key_of(t[1], t[2], t[3])

\* the elements of s at the positions in keep, in order
RECURSIVE KeepAt(_, _, _)
KeepAt(s, keep, i) ==
    IF i > Len(s) THEN <<>>
    ELSE (IF i \in keep THEN <<s[i]>> ELSE <<>>) \o KeepAt(s, keep, i + 1)

\* the listings of s whose (g, source, url) is not in `earlier` and does not
\* occur at an earlier position of s
FirstOccurrences(s, g, earlier) ==
    KeepAt(s,
           {i \in DOMAIN s :
               /\ <<g, s[i].source, s[i].url>> \notin earlier
               /\ \A j \in 1..(i - 1) :
                     <<s[j].source, s[j].url>> # <<s[i].source, s[i].url>>},
           1)

\* C1: in serialized runs over one store that starts missing or empty,
\* remove_seen returns a listing of its input for group g exactly when no
\* listing with the same (g, source, url) was processed before, in this call
\* or in an earlier run.
C1_ReportedIffFirstOccurrence ==
    \A p \in Procs :
        pc[p] = "save" =>
            new_only[p] = FirstOccurrences(filtered[p], People(p), processed)

\* C1, where the dedup holds: a later run drops a listing an earlier run
\* reported for group 1; that run had reported the same url for group 2 and
\* for another source as well
C1_LaterRunSuppresses ==
    \E p \in Procs :
        /\ p > 1
        /\ pc[p] = "save"
        /\ People(p) = 1
        /\ \E i \in DOMAIN filtered[p] :
              filtered[p][i].source = "Pararius" /\ filtered[p][i].url = <<"a">>
        /\ \A i \in DOMAIN new_only[p] : new_only[p][i].url # <<"a">>
        /\ {<<1, "Pararius", <<"a">>>>, <<2, "Pararius", <<"a">>>>,
            <<1, "Funda", <<"a">>>>} \subseteq reported[1]

\* the admission rule as section 4.4 of the specification words it
AdmissionRule(l, n) ==
    /\ l.price # None
    /\ l.price <= BASE_BUDGET * n
    /\ l.furnished = TRUE
    /\ IF n = 1 THEN l.bedrooms = None \/ l.bedrooms <= 1
       ELSE l.bedrooms = None \/ l.bedrooms >= 2

\* C2: filter_for_people(listings, p) contains a listing exactly when its
\* price is known and at most BASE_BUDGET * p, it is furnished, and its
\* bedroom count is unknown or fits the group (<= 1 for p = 1, >= 2 otherwise).
C2_FilterAdmitsIffRule ==
    (call.fn = "filter_for_people" /\ call.done) =>
        \A i \in DOMAIN call.arg.listings :
            (call.arg.listings[i] \in Range(call.ret))
                <=> AdmissionRule(call.arg.listings[i], call.arg.people)

C2_BoundaryAdmitted ==
    /\ call.fn = "filter_for_people"
    /\ call.done
    /\ call.arg.people = 2
    /\ Len(call.arg.listings) = 1
    /\ call.arg.listings[1].price = 2 * BASE_BUDGET
    /\ call.arg.listings[1].bedrooms = None
    /\ call.ret = call.arg.listings

PosIn(s, x) == CHOOSE i \in DOMAIN s : s[i] = x

\* C3: the digest of a group lists the first min(TOP_RESULTS, n) of the n new
\* listings, which are admitted listings in ascending price order with equal
\* prices in aggregation order, so nothing omitted is cheaper than anything
\* listed; with n = 0 the digest is the "no new listings" message.
C3_DigestListsCheapest ==
    \A p \in Procs :
        pc[p] = "next" =>
            LET new == new_only[p]
                n == Len(new)
                k == Min(TOP_RESULTS, n)
                m == msg[p]
            IN /\ \A i \in 1..n : /\ new[i] \in Range(listings[p])
                                  /\ AdmissionRule(new[i], People(p))
               /\ \A i \in 1..n : \A j \in (i + 1)..n :
                     \/ new[i].price < new[j].price
                     \/ /\ new[i].price = new[j].price
                        /\ PosIn(listings[p], new[i]) < PosIn(listings[p], new[j])
               /\ m.people = People(p)
               /\ IF n = 0 THEN m.kind = "none" /\ m.items = <<>>
                  ELSE /\ m.kind = "matches"
                       /\ m.max_rent = BASE_BUDGET * People(p)
                       /\ Len(m.items) = k
                       /\ \A i \in 1..k :
                             /\ m.items[i].source = new[i].source
                             /\ m.items[i].title = new[i].title
                             /\ m.items[i].price = new[i].price
                             /\ m.items[i].url = new[i].url
               /\ \A i \in 1..k : \A j \in (k + 1)..n :
                     new[i].price <= new[j].price

\* more new listings than the cap, the last one listed and the first one
\* omitted at the same price
C3_CapCutsATie ==
    \E p \in Procs :
        /\ pc[p] = "next"
        /\ Len(new_only[p]) > TOP_RESULTS
        /\ Len(msg[p].items) = TOP_RESULTS
        /\ new_only[p][TOP_RESULTS].price = new_only[p][TOP_RESULTS + 1].price

\* C4: a candidate whose price cannot be parsed is admitted for no group of
\* PERSON_GROUPS: a Pararius card without digits builds no listing, a detail
\* page on which _parse_price_from_text finds nothing gets the price 10**9.
C4_UnparsedPriceNeverAdmitted ==
    (call.fn = "candidate" /\ call.done) =>
        /\ (call.arg.source = "Pararius" /\ OnlyDigits(call.arg.text) = <<>>)
              => call.ret.built = <<>>
        /\ (call.arg.source # "Pararius" /\ call.ret.parsed = None)
              => /\ Len(call.ret.built) = 1
                 /\ call.ret.built[1].price = Sentinel
                 /\ \A g \in Range(PERSON_GROUPS) : call.ret.admitted[g] = <<>>

\* a detail page with digits in its text but no price that parses
C4_SentinelRejected ==
    /\ call.fn = "candidate"
    /\ call.done
    /\ call.arg.source = "Funda"
    /\ OnlyDigits(call.arg.text) # <<>>
    /\ call.ret.parsed = None
    /\ call.ret.built # <<>>
    /\ \A g \in Range(PERSON_GROUPS) : call.ret.admitted[g] = <<>>

\* what a source yields when none of its requests fails
SourceListings(src) ==
    CASE src = "Pararius" -> fetch_pararius_listings({}).out
      [] src = "Funda" -> fetch_funda_listings({}, {}).out
      [] src = "Huurwoningen" -> fetch_huurwoningen_listings({}, {}).out

\* the listings of src that survive the failures fl (lists) and fd (details)
Surviving(src, fl, fd) ==
    IF src \in fl THEN <<>>
    ELSE SelectSeq(SourceListings(src), LAMBDA l : <<src, l.url>> \notin fd)

\* C5: whatever list requests and detail requests fail, fetch_all_listings
\* returns the listings of the sources that did not fail, in the order
\* Pararius, Funda, Huurwoningen, less the candidates whose detail request
\* failed; from there on the run always has a next step, and when it ends it
\* has notified every group.
C5_FetchIsolatesFailures ==
    \A p \in Procs :
        /\ pc[p] \notin {"idle", "done"} =>
              /\ listings[p] =
                    Surviving("Pararius", failedList[p], failedDetail[p])
                    \o Surviving("Funda", failedList[p], failedDetail[p])
                    \o Surviving("Huurwoningen", failedList[p], failedDetail[p])
              /\ ENABLED RunStep(p)
        /\ pc[p] = "done" => groupsDone[p] = Range(PERSON_GROUPS)

\* a run in which a list request and a detail request of another source
\* failed has notified both groups
C5_FailuresThenAllNotified ==
    \E p \in Procs :
        /\ pc[p] = "next"
        /\ failedList[p] = {"Funda"}
        /\ failedDetail[p] = {<<"Huurwoningen", <<"g">>>>}
        /\ Len(listings[p]) = 6
        /\ groupsDone[p] = Range(PERSON_GROUPS)

C8_SerializedRunsSafe ==
    (serialized /\ AllDone) =>
        /\ everSaved \subseteq StoreKeys
        /\ \A p \in Procs : \A q \in Procs \ {p} :
              reported[p] \cap reported[q] = {}

\* C8, the half about interleaved runs: both have ended, a key one of them
\* saved is gone from the store and a listing was reported by both (neither
\* with white space in its url)
C8_InterleavedRunsUnsafe ==
    /\ ~serialized
    /\ AllDone
    /\ \E k \in everSaved : strip(k) = k /\ k \notin StoreKeys
    /\ \E t \in reported[1] \cap reported[2] : strip(t[3]) = t[3]

\* C9: is_furnished is FALSE when the lower-cased text contains a
\* FURNISHED_NO phrase, TRUE when it contains a FURNISHED_YES phrase and no
\* FURNISHED_NO phrase, FALSE when it contains neither.
C9_NegativePhraseWins ==
    (call.fn = "is_furnished" /\ call.done) =>
        LET t == lower(call.arg)
            no == \E w \in FURNISHED_NO : Contains(t, w)
            yes == \E w \in FURNISHED_YES : Contains(t, w)
        IN /\ no => call.ret = FALSE
           /\ (yes /\ ~no) => call.ret = TRUE
           /\ (~yes /\ ~no) => call.ret = FALSE

\* a text with a negative phrase and, apart from it, a positive one
C9_ConflictIsUnfurnished ==
    /\ call.fn = "is_furnished"
    /\ call.done
    /\ Contains(lower(call.arg), <<"kaal">>)
    /\ Contains(lower(call.arg), <<"gemeubileerd">>)
    /\ call.ret = FALSE

\* C10 as stated, read at its weakest (between runs, keys compared after
\* strip): every key in the store is the key of a listing that was in a digest
\* posted for that group.
C10_StoredMeansNotified ==
    Quiescent =>
        \A k \in StoreKeys : \E t \in notified : k = strip(TripleKey(t))

\* C10 as amended: every key in the store is the key of a listing that
\* remove_seen returned as new for that group; such a listing was in a posted
\* digest exactly when it was among the first TOP_RESULTS of that result and
\* the credentials were set.
C10_StoredMeansReturnedAsNew ==
    Quiescent =>
        /\ \A k \in StoreKeys : \E t \in AllReported : k = strip(TripleKey(t))
        /\ notified = topNew
        /\ notified \subseteq AllReported

\* with the credentials set, a sixth new listing is in the store and was
\* never in a digest
C10_OverflowRecordedUnnotified ==
    /\ creds
    /\ Quiescent
    /\ \E t \in AllReported :
          /\ strip(TripleKey(t)) \in StoreKeys
          /\ t \notin notified

=============================================================================
